---------------------------- MODULE Spec2Model ----------------------------
(***************************************************************************)
(* Model of the tdnf metalink plugin, src/plugins/metalink/utils.c:        *)
(* the hash registry (TDNFGetResourceType), the hex codec, the digest      *)
(* engine adapter (TDNFGetDigestForFile, TDNFCheckHash), hash selection    *)
(* and verification (TDNFCheckRepoMDFileHashFromMetalink) and the expat    *)
(* event handlers driven by TDNFMetalinkParseFile.                         *)
(*                                                                         *)
(* A C string is a sequence of one-character strings (without its NUL).    *)
(* A NULL string is the value NULL.  A digest is a sequence of bytes.      *)
(***************************************************************************)
EXTENDS Integers, Sequences, FiniteSets, TLC

VARIABLES
    hashType,       \* static hash_type hashType[]: the registry table (utils.c:48)
    sorted,         \* static _Bool sorted of TDNFGetResourceType (utils.c:81)
    ml_ctx,         \* TDNF_ML_CTX: filename, size, hashes, urls
    elementInfo,    \* struct MetalinkElementInfo (utils.c:65)
    nEvents,        \* number of tokenizer events delivered so far
    xmlStatus,      \* what XML_Parse returned (meaningful once pc = "parsed")
    parseResult,    \* TDNFMetalinkParseFile's return value (once pc = "parsed")
    firstError,     \* history: the first error a handler latched (0: none)
    pc,             \* "parsing", "parsed"; "select", "check", "done" in the
                    \* verification; "unit" where the functions are called alone
    hashList,       \* loop cursor: index into ml_ctx.hashes
    hash_Type,      \* best rank found by the selection pass (-1: none)
    dwError,        \* dwError of TDNFCheckRepoMDFileHashFromMetalink
    digest,         \* unsigned char digest[EVP_MAX_MD_SIZE]
    attempts,       \* history: one record per TDNFCheckHash call
    openElems,      \* history: the names of the elements open in the document
    elemPhase,      \* history: "started", "data" or "closed" (see OnStart)
    fileSeen,       \* history: the latest file element ("none": no such element)
    lastVal,        \* history: the character data of the latest event, if it was one
    call,           \* the latest call of one of the functions called alone
    threads,        \* per thread: where it is in TDNFGetResourceType, its locals
    sortCalls,      \* history: the number of qsort calls made
    overlap         \* history: a bsearch ran while another thread was in qsort

vars == <<hashType, sorted, ml_ctx, elementInfo, nEvents, xmlStatus, parseResult,
          firstError, pc, hashList, hash_Type, dwError, digest, attempts,
          openElems, elemPhase, fileSeen, lastVal, call,
          threads, sortCalls, overlap>>

\* NULL is a sequence too, so that it compares with every C string.
NULL == <<"NULL">>

-----------------------------------------------------------------------------
(* Characters and the C string functions the code calls.                   *)

\* The printable ASCII characters in code order, from ' ' (32) to '~' (126);
\* "(96)" holds the place of the grave accent, which no input here contains.
AsciiTable ==
    << " ", "!", "\"", "#", "$", "%", "&", "'", "(", ")", "*", "+", ",", "-",
       ".", "/", "0", "1", "2", "3", "4", "5", "6", "7", "8", "9", ":", ";",
       "<", "=", ">", "?", "@", "A", "B", "C", "D", "E", "F", "G", "H", "I",
       "J", "K", "L", "M", "N", "O", "P", "Q", "R", "S", "T", "U", "V", "W",
       "X", "Y", "Z", "[", "\\", "]", "^", "_", "(96)", "a", "b", "c", "d", "e",
       "f", "g", "h", "i", "j", "k", "l", "m", "n", "o", "p", "q", "r", "s",
       "t", "u", "v", "w", "x", "y", "z", "{", "|", "}", "~" >>

\* The code of each character of the table.
AsciiCode ==
    [c \in {AsciiTable[i] : i \in 1..Len(AsciiTable)} |->
        31 + (CHOOSE i \in 1..Len(AsciiTable) : AsciiTable[i] = c)]

Ascii(c) == AsciiCode[c]

\* The character at 0-based offset i of a C string; 0 is the terminating NUL.
CharCode(s, i) == IF i < Len(s) THEN Ascii(s[i + 1]) ELSE 0

RECURSIVE StrCmpFrom(_, _, _)
StrCmpFrom(a, b, i) ==
    LET ca == CharCode(a, i)
        cb == CharCode(b, i)
    IN  IF ca # cb THEN (IF ca < cb THEN -1 ELSE 1)
        ELSE IF ca = 0 THEN 0
        ELSE StrCmpFrom(a, b, i + 1)

\* strcmp: the sign of the first differing byte, 0 when equal.
strcmp(a, b) == StrCmpFrom(a, b, 0)

tolower(c) ==
    IF Ascii(c) >= 65 /\ Ascii(c) <= 90 THEN AsciiTable[Ascii(c) + 32 - 31] ELSE c

\* strcasecmp(a, b) = 0
strcasecmp0(a, b) ==
    /\ Len(a) = Len(b)
    /\ \A i \in 1..Len(a) : tolower(a[i]) = tolower(b[i])

isdigit(c) == c \in {"0", "1", "2", "3", "4", "5", "6", "7", "8", "9"}

isxdigit(c) ==
    \/ isdigit(c)
    \/ c \in {"a", "b", "c", "d", "e", "f", "A", "B", "C", "D", "E", "F"}

isspace(c) == c = " "

\* The value of a hexadecimal digit.
XDigitValue(c) ==
    IF isdigit(c) THEN Ascii(c) - 48
    ELSE IF Ascii(c) >= 97 THEN Ascii(c) - 97 + 10
    ELSE Ascii(c) - 65 + 10

IsNullOrEmptyString(s) == s = NULL \/ s = <<>>

-----------------------------------------------------------------------------
(* Error codes (tdnferror.h) and the expat status codes.  Only that they   *)
(* are nonzero and pairwise distinct matters to the code modelled here.    *)

ERROR_TDNF_INVALID_REPO_FILE == 1004
ERROR_TDNF_CHECKSUM_VALIDATION_FAILED == 1032
ERROR_TDNF_FIPS_MODE_FORBIDDEN == 1041
ERROR_TDNF_SYSTEM_BASE == 1600
ERROR_TDNF_INVALID_PARAMETER == 1622
ERROR_TDNF_METALINK_PARSER_MISSING_FILE_ATTR == 2701
ERROR_TDNF_METALINK_PARSER_INVALID_FILE_NAME == 2702
ERROR_TDNF_METALINK_PARSER_MISSING_FILE_SIZE == 2703
ERROR_TDNF_METALINK_PARSER_MISSING_HASH_ATTR == 2704
ERROR_TDNF_METALINK_PARSER_MISSING_HASH_CONTENT == 2705
ERROR_TDNF_METALINK_PARSER_MISSING_URL_ATTR == 2706
ERROR_TDNF_METALINK_PARSER_MISSING_URL_CONTENT == 2707

\* enum XML_Status, the return value of XML_Parse.
XML_STATUS_ERROR == 0
XML_STATUS_OK == 1

\* errno values used for the system calls that fail.
ENOENT == 2
EIO == 5

-----------------------------------------------------------------------------
(* Hash registry.                                                          *)

TDNF_HASH_MD5 == 0
TDNF_HASH_SHA1 == 1
TDNF_HASH_SHA256 == 2
TDNF_HASH_SHA512 == 3
TDNF_HASH_SENTINEL == 4

MD5_DIGEST_LENGTH == 16
SHA_DIGEST_LENGTH == 20
SHA256_DIGEST_LENGTH == 32
SHA512_DIGEST_LENGTH == 64
EVP_MAX_MD_SIZE == 64

\* hash_ops[]: indexed by the hash enumeration (0-based in C, so rank + 1 here).
hash_ops ==
    << [hash_type |-> <<"m","d","5">>,             length |-> MD5_DIGEST_LENGTH],
       [hash_type |-> <<"s","h","a","1">>,         length |-> SHA_DIGEST_LENGTH],
       [hash_type |-> <<"s","h","a","2","5","6">>, length |-> SHA256_DIGEST_LENGTH],
       [hash_type |-> <<"s","h","a","5","1","2">>, length |-> SHA512_DIGEST_LENGTH] >>

\* hashType[] as initialised, in source order (not strcmp order).
hashTypeInit ==
    << [hash_name |-> <<"m","d","5">>,                 hash_value |-> TDNF_HASH_MD5],
       [hash_name |-> <<"s","h","a","1">>,             hash_value |-> TDNF_HASH_SHA1],
       [hash_name |-> <<"s","h","a","-","1">>,         hash_value |-> TDNF_HASH_SHA1],
       [hash_name |-> <<"s","h","a","2","5","6">>,     hash_value |-> TDNF_HASH_SHA256],
       [hash_name |-> <<"s","h","a","-","2","5","6">>, hash_value |-> TDNF_HASH_SHA256],
       [hash_name |-> <<"s","h","a","5","1","2">>,     hash_value |-> TDNF_HASH_SHA512],
       [hash_name |-> <<"s","h","a","-","5","1","2">>, hash_value |-> TDNF_HASH_SHA512] >>

\* hashTypeComparator: strcmp of the two entries' names.
hashTypeComparator(p1, p2) == strcmp(p1.hash_name, p2.hash_name)

\* A sort that leaves the table in source order.
qsort_SourceOrder(table) == table

\* qsort(hashType, ..., hashTypeComparator): the names are pairwise distinct,
\* so the sorted order is unique.
qsort(table) == SortSeq(table, LAMBDA x, y : hashTypeComparator(x, y) < 0)

\* bsearch over table[l+1 .. u] (0-based half-open [l, u)), as the C library
\* does it; 0 when the key is not found, else the 1-based index.
RECURSIVE bsearchFrom(_, _, _, _)
bsearchFrom(key, table, l, u) ==
    IF l >= u THEN 0
    ELSE LET idx == (l + u) \div 2
             cmp == strcmp(key, table[idx + 1].hash_name)
         IN  IF cmp < 0 THEN bsearchFrom(key, table, l, idx)
             ELSE IF cmp > 0 THEN bsearchFrom(key, table, idx + 1, u)
             ELSE idx + 1

bsearch(key, table) == bsearchFrom(key, table, 0, Len(table))

\* TDNFGetResourceType(resource_type, &type) run on the table `table` with
\* the flag `isSorted`: the returned error, *type (initially `type0`, left
\* alone on error), and the table and flag afterwards.
TDNFGetResourceType(resource_type, type0, table, isSorted) ==
    IF IsNullOrEmptyString(resource_type)
    THEN [err |-> ERROR_TDNF_INVALID_PARAMETER, type |-> type0,
          table |-> table, sorted |-> isSorted]
    ELSE LET t == IF isSorted THEN table ELSE qsort(table)
             currHash == bsearch(resource_type, t)
         IN  [err |-> 0,
              type |-> IF currHash = 0 THEN -1 ELSE t[currHash].hash_value,
              table |-> t, sorted |-> TRUE]


-----------------------------------------------------------------------------
(* Hex codec.                                                              *)

\* The scan of TDNFCheckHexDigest from offset i: the offset of the NUL when
\* every character is a hex digit, -1 at the first one that is not.
RECURSIVE HexScan(_, _)
HexScan(hex_digest, i) ==
    IF i >= Len(hex_digest) THEN i
    ELSE IF ~isxdigit(hex_digest[i + 1]) THEN -1
    ELSE HexScan(hex_digest, i + 1)

\* The check of the length alone, the characters not looked at.
TDNFCheckHexDigest_LengthOnly(hex_digest, digest_length) ==
    IF IsNullOrEmptyString(hex_digest) \/ digest_length <= 0 THEN FALSE
    ELSE digest_length * 2 = Len(hex_digest)

\* TDNFCheckHexDigest(hex_digest, digest_length) # 0
TDNFCheckHexDigest(hex_digest, digest_length) ==
    IF IsNullOrEmptyString(hex_digest) \/ digest_length <= 0 THEN FALSE
    ELSE LET i == HexScan(hex_digest, 0)
         IN  i # -1 /\ digest_length * 2 = i

\* strtoul(buf, NULL, 16) & 0xff for the two-character buffer of
\* TDNFHexToUint: leading white space, an optional sign, an optional 0x
\* prefix, then the longest run of hex digits; 0 when there is none.  No
\* two-character input overflows, so errno stays 0.
strtoul16(buf) ==
    LET Digits(s) ==
            IF Len(s) >= 1 /\ isxdigit(s[1])
            THEN IF Len(s) >= 2 /\ isxdigit(s[2])
                 THEN 16 * XDigitValue(s[1]) + XDigitValue(s[2])
                 ELSE XDigitValue(s[1])
            ELSE 0
        s1 == IF Len(buf) >= 1 /\ isspace(buf[1]) THEN Tail(buf) ELSE buf
        s2 == IF Len(s1) >= 1 /\ isspace(s1[1]) THEN Tail(s1) ELSE s1
        neg == Len(s2) >= 1 /\ s2[1] = "-"
        s3 == IF Len(s2) >= 1 /\ s2[1] \in {"+", "-"} THEN Tail(s2) ELSE s2
        val == Digits(s3)
    IN  IF neg THEN (256 - val) % 256 ELSE val

\* TDNFHexToUint(hex_digest + off, &uintValue): buf holds the two
\* characters at the pointer, cut at the NUL when only one is left.
TDNFHexToUint(hex_digest, off) ==
    IF hex_digest = NULL \/ off >= Len(hex_digest)
    THEN [err |-> ERROR_TDNF_INVALID_PARAMETER, uintValue |-> 0]
    ELSE [err |-> 0,
          uintValue |-> strtoul16(IF off + 2 <= Len(hex_digest)
                                  THEN <<hex_digest[off + 1], hex_digest[off + 2]>>
                                  ELSE <<hex_digest[off + 1]>>)]

\* The decode loop of TDNFChecksumFromHexDigest from offset i, pdigest so far.
RECURSIVE HexDecodeFrom(_, _, _)
HexDecodeFrom(hex_digest, i, pdigest) ==
    IF i >= Len(hex_digest) THEN [err |-> 0, pdigest |-> pdigest]
    ELSE LET r == TDNFHexToUint(hex_digest, i)
         IN  IF r.err # 0 THEN [err |-> r.err, pdigest |-> pdigest]
             ELSE HexDecodeFrom(hex_digest, i + 2, Append(pdigest, r.uintValue))

\* TDNFChecksumFromHexDigest(hex_digest, ppdigest): the error, and ppdigest
\* after memcpy(ppdigest, pdigest, len >> 1) (untouched on error).
TDNFChecksumFromHexDigest(hex_digest, ppdigest) ==
    IF IsNullOrEmptyString(hex_digest)
    THEN [err |-> ERROR_TDNF_INVALID_PARAMETER, digest |-> ppdigest]
    ELSE LET r == HexDecodeFrom(hex_digest, 0, <<>>)
             n == Len(hex_digest) \div 2
         IN  IF r.err # 0 THEN [err |-> r.err, digest |-> ppdigest]
             ELSE [err |-> 0,
                   digest |-> [k \in 1..Len(ppdigest) |->
                                 IF k <= n THEN r.pdigest[k] ELSE ppdigest[k]]]

-----------------------------------------------------------------------------
(* Digest engine adapter.                                                  *)

\* The digest the engine computes for the file under verification with the
\* algorithm of rank `type`: the file and the engine are given, so this is
\* one fixed byte string of the algorithm's length per algorithm.
FileDigest(type) ==
    [i \in 1..hash_ops[type + 1].length |-> (7 * i + 13 * type + 1) % 256]

\* What the file system and the digest engine can do to one run of
\* TDNFGetDigestForFile: nothing, or fail at one of its calls.
Faults == {"none", "open", "digestbyname", "create", "init", "update",
           "read", "final"}

\* TDNFGetDigestForFile(filename, hash, digest) under fault `fault`, with
\* FIPS mode `fips`: the error, and the digest written on success.
TDNFGetDigestForFile(filename, hash, fault, fips) ==
    LET Fail(e) == [err |-> e, digest |-> NULL]
    IN  IF IsNullOrEmptyString(filename) THEN Fail(ERROR_TDNF_INVALID_PARAMETER)
        ELSE IF fault = "open" THEN Fail(ERROR_TDNF_SYSTEM_BASE + ENOENT)
        ELSE IF fault = "digestbyname" THEN Fail(ERROR_TDNF_INVALID_PARAMETER)
        ELSE IF fault = "create" THEN Fail(ERROR_TDNF_CHECKSUM_VALIDATION_FAILED)
        ELSE IF fault = "init"
             THEN IF fips /\ strcasecmp0(hash.hash_type, <<"m","d","5">>)
                  THEN Fail(ERROR_TDNF_FIPS_MODE_FORBIDDEN)
                  ELSE Fail(ERROR_TDNF_CHECKSUM_VALIDATION_FAILED)
        ELSE IF fault = "update" THEN Fail(ERROR_TDNF_CHECKSUM_VALIDATION_FAILED)
        ELSE IF fault = "read" THEN Fail(ERROR_TDNF_SYSTEM_BASE + EIO)
        ELSE IF fault = "final" THEN Fail(ERROR_TDNF_CHECKSUM_VALIDATION_FAILED)
        ELSE [err |-> 0,
              digest |-> FileDigest(CHOOSE t \in 0..(TDNF_HASH_SENTINEL - 1) :
                                        hash_ops[t + 1] = hash)]

\* The release at `cleanup:` that skips the descriptor on the error paths.
DigestCleanup_LeakOnError(fd, ctx, err) ==
    [closed |-> IF fd >= 0 /\ err = 0 THEN 1 ELSE 0,
     destroyed |-> IF ctx # NULL THEN 1 ELSE 0]

\* The `cleanup:` label of TDNFGetDigestForFile (utils.c:214-222), which
\* every path reaches with the locals fd and ctx and the error dwError: how
\* often the descriptor is closed and the context destroyed.
DigestCleanup(fd, ctx, err) ==
    [closed |-> IF fd >= 0 THEN 1 ELSE 0,
     destroyed |-> IF ctx # NULL THEN 1 ELSE 0]

\* The locals fd and ctx of TDNFGetDigestForFile when it reaches `cleanup:`
\* under `fault`: fd is -1 until open succeeds (to descriptor 3, say), ctx
\* is NULL until EVP_MD_CTX_create succeeds.
DigestLocals(filename, fault) ==
    IF IsNullOrEmptyString(filename) \/ fault = "open"
    THEN [fd |-> -1, ctx |-> NULL]
    ELSE IF fault \in {"digestbyname", "create"}
    THEN [fd |-> 3, ctx |-> NULL]
    ELSE [fd |-> 3, ctx |-> <<"c","t","x">>]

\* The decode buffer of TDNFChecksumFromHexDigest (utils.c:357-371): its
\* size, the number of bytes the loop stores into it, and how often it is
\* freed; no buffer is allocated when the parameter check fails.
DecodeBuffer(hex_digest) ==
    IF IsNullOrEmptyString(hex_digest)
    THEN [allocated |-> 0, size |-> 0, stored |-> 0, freed |-> 0]
    ELSE [allocated |-> 1,
          size |-> Len(hex_digest) \div 2,
          stored |-> Len(HexDecodeFrom(hex_digest, 0, <<>>).pdigest),
          freed |-> 1]

\* TDNFCheckHash(filename, digest, type) under the same fault and mode.
TDNFCheckHash(filename, digestArg, type, fault, fips) ==
    IF IsNullOrEmptyString(filename) THEN ERROR_TDNF_INVALID_PARAMETER
    ELSE IF type < TDNF_HASH_MD5 \/ type >= TDNF_HASH_SENTINEL
         THEN ERROR_TDNF_INVALID_PARAMETER
    ELSE LET hash == hash_ops[type + 1]
             r == TDNFGetDigestForFile(filename, hash, fault, fips)
         IN  IF r.err # 0 THEN r.err
             ELSE IF SubSeq(r.digest, 1, hash.length)
                       # SubSeq(digestArg, 1, hash.length)
                  THEN ERROR_TDNF_CHECKSUM_VALIDATION_FAILED
             ELSE 0

-----------------------------------------------------------------------------
(* Inputs.                                                                 *)

\* The most hash declarations a model holds.
MaxHashes == 2

\* The text of a digest in hex, in lower or upper case.
HexText(bytes, upper) ==
    LET digits == IF upper
                  THEN <<"0","1","2","3","4","5","6","7","8","9","A","B","C","D","E","F">>
                  ELSE <<"0","1","2","3","4","5","6","7","8","9","a","b","c","d","e","f">>
    IN  [k \in 1..(2 * Len(bytes)) |->
            IF k % 2 = 1 THEN digits[(bytes[(k + 1) \div 2] \div 16) + 1]
            ELSE digits[(bytes[k \div 2] % 16) + 1]]

GoodMd5 == HexText(FileDigest(TDNF_HASH_MD5), FALSE)
GoodSha1 == HexText(FileDigest(TDNF_HASH_SHA1), TRUE)
GoodSha256 == HexText(FileDigest(TDNF_HASH_SHA256), FALSE)
GoodSha512 == HexText(FileDigest(TDNF_HASH_SHA512), FALSE)
\* Well-formed for sha256, but not the file's digest.
BadSha256 == HexText([i \in 1..SHA256_DIGEST_LENGTH |-> (3 * i) % 256], FALSE)
\* The length of a sha256 digest, with a character that is no hex digit.
NonHexSha256 == [GoodSha256 EXCEPT ![5] = "g"]

\* The type attributes of hash elements: registry spellings, the empty
\* string, a spelling in another case and a name the registry lacks.
HashTypeNames ==
    { <<"m","d","5">>, <<"s","h","a","-","1">>, <<"s","h","a","2","5","6">>,
      <<"s","h","a","5","1","2">>, <<>>, <<"S","H","A","2","5","6">>,
      <<"s","h","a","3","8","4">> }

HashValues == {GoodMd5, GoodSha1, GoodSha256, BadSha256, NonHexSha256}

HashDecls == [type : HashTypeNames, value : HashValues]

RECURSIVE SeqsUpTo(_, _)
SeqsUpTo(S, n) ==
    IF n = 0 THEN {<<>>}
    ELSE LET shorter == SeqsUpTo(S, n - 1)
         IN  shorter \cup {Append(q, x) : q \in shorter, x \in S}

\* The file name TDNFMetalinkParseFile is told to expect.
filename == <<"p","k","g">>

\* The file TDNFCheckRepoMDFileHashFromMetalink is given.
pszFile == <<"r","e","p","o","m","d",".","x","m","l">>

-----------------------------------------------------------------------------
(* TDNFCheckRepoMDFileHashFromMetalink, one action per loop iteration.     *)

\* What the handlers and the tokenizer keep, what the threads keep, and
\* both, with and without `call`.
handlerVars == <<elementInfo, nEvents, xmlStatus, parseResult, firstError,
                 openElems, elemPhase, fileSeen, lastVal>>

threadVars == <<threads, sortCalls, overlap>>

parserVars_unit == <<handlerVars, threadVars>>

parserVars == <<parserVars_unit, call>>

currHashInfo == ml_ctx.hashes[hashList]

\* One iteration of the selection loop (utils.c:397-413).
SelectNext ==
    /\ pc = "select"
    /\ hashList <= Len(ml_ctx.hashes)
    /\ LET r == TDNFGetResourceType(currHashInfo.type, TDNF_HASH_SENTINEL,
                                    hashType, sorted)
       IN  /\ hashType' = r.table
           /\ sorted' = r.sorted
           /\ dwError' = r.err
           /\ IF r.err # 0
              THEN /\ pc' = "done"
                   /\ UNCHANGED <<hashList, hash_Type>>
              ELSE /\ hash_Type' = IF hash_Type < r.type THEN r.type ELSE hash_Type
                   /\ hashList' = hashList + 1
                   /\ pc' = pc
    /\ UNCHANGED <<ml_ctx, digest, attempts, parserVars>>

\* The selection loop has run out (utils.c:415-419).
SelectEnd ==
    /\ pc = "select"
    /\ hashList > Len(ml_ctx.hashes)
    /\ IF hash_Type < 0
       THEN /\ dwError' = ERROR_TDNF_INVALID_REPO_FILE
            /\ pc' = "done"
            /\ UNCHANGED hashList
       ELSE /\ pc' = "check"
            /\ hashList' = 1
            /\ UNCHANGED dwError
    /\ UNCHANGED <<hashType, sorted, ml_ctx, hash_Type, digest, attempts, parserVars>>

\* Whether the declaration under the cursor passes the filter of utils.c:433.
IsCandidate(type) ==
    /\ hash_Type = type
    /\ TDNFCheckHexDigest(currHashInfo.value, hash_ops[type + 1].length)

\* An iteration of the verification loop that bails out of the lookup or
\* skips the declaration (utils.c:424-433).
CheckSkip ==
    /\ pc = "check"
    /\ hashList <= Len(ml_ctx.hashes)
    /\ LET r == TDNFGetResourceType(currHashInfo.type, TDNF_HASH_SENTINEL,
                                    hashType, sorted)
       IN  /\ r.err # 0 \/ ~IsCandidate(r.type)
           /\ hashType' = r.table
           /\ sorted' = r.sorted
           /\ dwError' = r.err
           /\ IF r.err # 0
              THEN pc' = "done" /\ UNCHANGED hashList
              ELSE pc' = pc /\ hashList' = hashList + 1
    /\ UNCHANGED <<ml_ctx, hash_Type, digest, attempts, parserVars>>

\* The loop leaving only on success, every error taken for a mismatch.
LeavesLoop_OnSuccessOnly(err) == err = 0

\* The loop leaving on an error only, going on after a match.
LeavesLoop_OnErrorOnly(err) ==
    err # 0 /\ err # ERROR_TDNF_CHECKSUM_VALIDATION_FAILED

\* What the loop does with the result of TDNFCheckHash (utils.c:438-443):
\* TRUE when it leaves the loop, by the bail-out or by the break.
LeavesLoop(err) ==
    \/ (err # 0 /\ err # ERROR_TDNF_CHECKSUM_VALIDATION_FAILED)
    \/ err = 0

\* An iteration of the verification loop on a candidate (utils.c:433-444):
\* the digest is decoded and the file checked, the file system and the
\* digest engine failing as `fault` says, in FIPS mode or not (the mode is
\* read only when the initialisation fails, utils.c:174).
CheckAttempt ==
    /\ pc = "check"
    /\ hashList <= Len(ml_ctx.hashes)
    /\ LET r == TDNFGetResourceType(currHashInfo.type, TDNF_HASH_SENTINEL,
                                    hashType, sorted)
       IN  /\ r.err = 0
           /\ IsCandidate(r.type)
           /\ hashType' = r.table
           /\ sorted' = r.sorted
    /\ LET d == TDNFChecksumFromHexDigest(currHashInfo.value, digest)
       IN  /\ digest' = d.digest
           /\ IF d.err # 0
              THEN /\ dwError' = d.err
                   /\ pc' = "done"
                   /\ UNCHANGED <<hashList, attempts>>
              ELSE \E fault \in Faults :
                   \E fips \in (IF fault = "init" THEN BOOLEAN ELSE {FALSE}) :
                      LET e == TDNFCheckHash(pszFile, d.digest, hash_Type,
                                             fault, fips)
                      IN  /\ dwError' = e
                          /\ attempts' = Append(attempts,
                                [decl |-> hashList, type |-> hash_Type,
                                 fault |-> fault, fips |-> fips, err |-> e])
                          /\ IF LeavesLoop(e)
                             THEN pc' = "done" /\ UNCHANGED hashList
                             ELSE pc' = pc /\ hashList' = hashList + 1
    /\ UNCHANGED <<ml_ctx, hash_Type, parserVars>>

\* The verification loop has run out (utils.c:445-448).
CheckEnd ==
    /\ pc = "check"
    /\ hashList > Len(ml_ctx.hashes)
    /\ pc' = "done"
    /\ UNCHANGED <<hashType, sorted, ml_ctx, hashList, hash_Type, dwError,
                   digest, attempts, parserVars>>

\* A call of TDNFCheckRepoMDFileHashFromMetalink on a model with at most
\* MaxHashes declarations, in a process that has not used the registry.
InitVerify ==
    /\ hashType = hashTypeInit
    /\ sorted = FALSE
    /\ ml_ctx \in [filename : {NULL}, size : {0},
                   hashes : SeqsUpTo(HashDecls, MaxHashes), urls : {<<>>}]
    /\ elementInfo = [dwError |-> 0, filename |-> filename,
                      startElement |-> NULL, endElement |-> NULL,
                      attributes |-> <<>>]
    /\ nEvents = 0
    /\ xmlStatus = XML_STATUS_ERROR
    /\ parseResult = 0
    /\ firstError = 0
    /\ pc = "select"
    /\ hashList = 1
    /\ hash_Type = -1
    /\ dwError = 0
    /\ digest = [k \in 1..EVP_MAX_MD_SIZE |-> 0]
    /\ attempts = <<>>
    /\ openElems = <<>>
    /\ elemPhase = "closed"
    /\ fileSeen = "none"
    /\ lastVal = NULL
    /\ threads = [t \in {} |-> 0]
    /\ sortCalls = 0
    /\ overlap = FALSE
    /\ call = [fn |-> "none"]

NextVerify ==
    \/ SelectNext
    \/ SelectEnd
    \/ CheckSkip
    \/ CheckAttempt
    \/ CheckEnd

SpecVerify == InitVerify /\ [][NextVerify]_vars

-----------------------------------------------------------------------------
(* The parser: the expat handlers and TDNFMetalinkParseFile.               *)

MIN_URL_LENGTH == 4
ATTR_NAME == <<"n","a","m","e">>
ATTR_PROTOCOL == <<"p","r","o","t","o","c","o","l">>
ATTR_TYPE == <<"t","y","p","e">>
ATTR_LOCATION == <<"l","o","c","a","t","i","o","n">>
ATTR_PREFERENCE == <<"p","r","e","f","e","r","e","n","c","e">>

TAG_NAME_FILE == <<"f","i","l","e">>
TAG_NAME_SIZE == <<"s","i","z","e">>
TAG_NAME_HASH == <<"h","a","s","h">>
TAG_NAME_URL == <<"u","r","l">>

\* TDNFAllocateString(src, &dst): a copy of a string that is not NULL.
TDNFAllocateString(src) ==
    IF src = NULL THEN [err |-> ERROR_TDNF_INVALID_PARAMETER, dst |-> NULL]
    ELSE [err |-> 0, dst |-> src]

\* TDNFAllocateStringN(src, n, &dst): the first n characters of src, all of
\* it when it is shorter; dst stays NULL when src is NULL.
TDNFAllocateStringN(src, n) ==
    IF src = NULL THEN NULL
    ELSE SubSeq(src, 1, IF n > Len(src) THEN Len(src) ELSE n)

\* The digits at the head of s as a number, after the digits read so far.
RECURSIVE DigitRun(_, _, _)
DigitRun(s, i, acc) ==
    IF i <= Len(s) /\ isdigit(s[i])
    THEN DigitRun(s, i + 1, [n |-> acc.n + 1, value |-> 10 * acc.value + XDigitValue(s[i])])
    ELSE acc

RECURSIVE SkipSpace(_, _)
SkipSpace(s, i) == IF i <= Len(s) /\ isspace(s[i]) THEN SkipSpace(s, i + 1) ELSE i

\* sscanf(s, "%d", &v) and sscanf(s, "%ld", &v): white space, an optional
\* sign, decimal digits.  n is the return value (1 when a number was read),
\* value the number stored.
sscanf_d(s) ==
    LET i == SkipSpace(s, 1)
        signed == i <= Len(s) /\ s[i] \in {"+", "-"}
        run == DigitRun(s, IF signed THEN i + 1 ELSE i, [n |-> 0, value |-> 0])
    IN  IF run.n = 0 THEN [n |-> 0, value |-> 0]
        ELSE [n |-> 1,
              value |-> IF signed /\ s[i] = "-" THEN 0 - run.value ELSE run.value]

\* TDNFSearchTag(attr, type) from index i of the flat name/value array.
RECURSIVE SearchTagFrom(_, _, _)
SearchTagFrom(attr, type, i) ==
    IF i > Len(attr) THEN NULL
    ELSE IF strcmp(attr[i], type) = 0 /\ attr[i + 1] # NULL THEN attr[i + 1]
    ELSE SearchTagFrom(attr, type, i + 2)

TDNFSearchTag(attr, type) == SearchTagFrom(attr, type, 1)

\* TDNFParseFileTag(userData): the error and the model afterwards.
TDNFParseFileTag(info, ctx) ==
    LET name == TDNFSearchTag(info.attributes, ATTR_NAME)
    IN  IF IsNullOrEmptyString(info.filename)
        THEN [err |-> ERROR_TDNF_INVALID_PARAMETER, ctx |-> ctx]
        ELSE IF name = NULL
        THEN [err |-> ERROR_TDNF_METALINK_PARSER_MISSING_FILE_ATTR, ctx |-> ctx]
        ELSE IF strcmp(name, info.filename) # 0
        THEN [err |-> ERROR_TDNF_METALINK_PARSER_INVALID_FILE_NAME, ctx |-> ctx]
        ELSE [err |-> 0, ctx |-> [ctx EXCEPT !.filename = name]]

\* TDNFParseHashTag(userData, val, len)
TDNFParseHashTag(info, ctx, val, len) ==
    LET type == TDNFSearchTag(info.attributes, ATTR_TYPE)
        value == TDNFAllocateStringN(val, len)
    IN  IF type = NULL
        THEN [err |-> ERROR_TDNF_METALINK_PARSER_MISSING_HASH_ATTR, ctx |-> ctx]
        ELSE IF value = NULL
        THEN [err |-> ERROR_TDNF_METALINK_PARSER_MISSING_HASH_CONTENT, ctx |-> ctx]
        ELSE [err |-> 0,
              ctx |-> [ctx EXCEPT !.hashes =
                          Append(@, [type |-> type, value |-> value])]]

\* The attribute loop of TDNFParseUrlTag from index i (utils.c:648-690).
RECURSIVE UrlAttrsFrom(_, _, _)
UrlAttrsFrom(attr, i, info) ==
    IF i > Len(attr) THEN [err |-> 0, info |-> info]
    ELSE LET name == attr[i]
             v == attr[i + 1]
             i1 == IF strcmp(name, ATTR_PROTOCOL) = 0 /\ v # NULL
                   THEN [info EXCEPT !.protocol = v] ELSE info
             i2 == IF strcmp(name, ATTR_TYPE) = 0 /\ v # NULL
                   THEN [i1 EXCEPT !.type = v] ELSE i1
             i3 == IF strcmp(name, ATTR_LOCATION) = 0 /\ v # NULL
                   THEN [i2 EXCEPT !.location = v] ELSE i2
         IN  IF strcmp(name, ATTR_PREFERENCE) = 0 /\ v # NULL
             THEN LET sc == sscanf_d(v)
                  IN  IF sc.n # 1
                      THEN [err |-> ERROR_TDNF_INVALID_PARAMETER, info |-> i3]
                      ELSE IF sc.value < 0 \/ sc.value > 100
                      THEN [err |-> ERROR_TDNF_METALINK_PARSER_MISSING_URL_ATTR,
                            info |-> i3]
                      ELSE UrlAttrsFrom(attr, i + 2,
                                        [i3 EXCEPT !.preference = sc.value])
             ELSE UrlAttrsFrom(attr, i + 2, i3)

\* TDNFParseUrlTag(userData, val, len)
TDNFParseUrlTag(info, ctx, val, len) ==
    LET a == UrlAttrsFrom(info.attributes, 1,
                          [protocol |-> NULL, type |-> NULL, location |-> NULL,
                           preference |-> 0, url |-> NULL])
        value == TDNFAllocateStringN(val, len)
    IN  IF a.err # 0 THEN [err |-> a.err, ctx |-> ctx]
        ELSE IF value = NULL
        THEN [err |-> ERROR_TDNF_METALINK_PARSER_MISSING_URL_CONTENT, ctx |-> ctx]
        ELSE [err |-> 0,
              ctx |-> [ctx EXCEPT !.urls = Append(@, [a.info EXCEPT !.url = value])]]

\* The dispatch with a url of exactly MIN_URL_LENGTH characters retained.
ParseDataDispatch_AtThreshold(info, ctx, val, len) ==
    IF strcmp(info.startElement, TAG_NAME_FILE) = 0
    THEN TDNFParseFileTag(info, ctx)
    ELSE IF strcmp(info.startElement, TAG_NAME_SIZE) = 0
    THEN LET size == TDNFAllocateStringN(val, len)
         IN  IF size = NULL
             THEN [err |-> ERROR_TDNF_METALINK_PARSER_MISSING_FILE_SIZE, ctx |-> ctx]
             ELSE IF sscanf_d(size).n # 1
             THEN [err |-> ERROR_TDNF_INVALID_PARAMETER, ctx |-> ctx]
             ELSE [err |-> 0, ctx |-> [ctx EXCEPT !.size = sscanf_d(size).value]]
    ELSE IF strcmp(info.startElement, TAG_NAME_HASH) = 0
    THEN TDNFParseHashTag(info, ctx, val, len)
    ELSE IF strcmp(info.startElement, TAG_NAME_URL) = 0 /\ len >= MIN_URL_LENGTH
    THEN TDNFParseUrlTag(info, ctx, val, len)
    ELSE [err |-> 0, ctx |-> ctx]

\* The dispatch of TDNFXmlParseData on the recorded start element
\* (utils.c:764-796): the error to latch and the model afterwards.
ParseDataDispatch(info, ctx, val, len) ==
    IF strcmp(info.startElement, TAG_NAME_FILE) = 0
    THEN TDNFParseFileTag(info, ctx)
    ELSE IF strcmp(info.startElement, TAG_NAME_SIZE) = 0
    THEN LET size == TDNFAllocateStringN(val, len)
         IN  IF size = NULL
             THEN [err |-> ERROR_TDNF_METALINK_PARSER_MISSING_FILE_SIZE, ctx |-> ctx]
             ELSE IF sscanf_d(size).n # 1
             THEN [err |-> ERROR_TDNF_INVALID_PARAMETER, ctx |-> ctx]
             ELSE [err |-> 0, ctx |-> [ctx EXCEPT !.size = sscanf_d(size).value]]
    ELSE IF strcmp(info.startElement, TAG_NAME_HASH) = 0
    THEN TDNFParseHashTag(info, ctx, val, len)
    ELSE IF strcmp(info.startElement, TAG_NAME_URL) = 0 /\ len > MIN_URL_LENGTH
    THEN TDNFParseUrlTag(info, ctx, val, len)
    ELSE [err |-> 0, ctx |-> ctx]

\* TDNFXmlParseData without the check of the latched error.
XmlParseData_NoLatchCheck(info, ctx, val, len) ==
    LET r == ParseDataDispatch(info, ctx, val, len)
    IN  [info |-> [info EXCEPT !.dwError = r.err], ctx |-> r.ctx]

\* TDNFXmlParseData(userData, val, len): the parse context and the model
\* afterwards.  A latched error takes the branch of the parameter check.
XmlParseData(info, ctx, val, len) ==
    IF IsNullOrEmptyString(info.filename) \/ info.dwError # 0
    THEN [info |-> [info EXCEPT !.dwError = ERROR_TDNF_INVALID_PARAMETER],
          ctx |-> ctx]
    ELSE LET r == ParseDataDispatch(info, ctx, val, len)
         IN  [info |-> [info EXCEPT !.dwError = r.err], ctx |-> r.ctx]

\* The start handler recording the element whatever is latched.
XmlParseStartElement_NoLatchCheck(info, name, attrs) ==
    [info EXCEPT !.startElement = name, !.attributes = attrs]

\* TDNFXmlParseStartElement(userData, name, attrs)
XmlParseStartElement(info, name, attrs) ==
    IF info.dwError # 0 THEN info
    ELSE [info EXCEPT !.startElement = name, !.attributes = attrs]

\* TDNFXmlParseEndElement(userData, name)
XmlParseEndElement(info, name) == [info EXCEPT !.endElement = name]

\* The tail of TDNFMetalinkParseFile (utils.c:874-888): its return value,
\* given what XML_Parse returned and the parse context.
ParseFileResult(status, info) ==
    IF status # 0 THEN status
    ELSE IF info.dwError # 0 THEN info.dwError
    ELSE 0

-----------------------------------------------------------------------------
(* The tokenizer's events.                                                 *)

\* The most events the tokenizer delivers in one parse.
MaxEvents == 5

ElementNames ==
    {TAG_NAME_FILE, TAG_NAME_SIZE, TAG_NAME_HASH, TAG_NAME_URL,
     <<"m","e","t","a","l","i","n","k">>}

\* The flat attribute arrays of the start events, per element.
AttrsOf(name) ==
    IF name = TAG_NAME_FILE
    THEN { <<>>, <<ATTR_NAME, filename>>, <<ATTR_NAME, <<"o","t","h","e","r">> >> }
    ELSE IF name = TAG_NAME_HASH
    THEN { <<>>, <<ATTR_TYPE, <<"s","h","a","2","5","6">> >>, <<ATTR_TYPE, <<>> >>,
           <<ATTR_TYPE, <<"S","H","A","2","5","6">> >> }
    ELSE IF name = TAG_NAME_URL
    THEN { <<>>,
           <<ATTR_PREFERENCE, <<"0">> >>, <<ATTR_PREFERENCE, <<"1","0","0">> >>,
           <<ATTR_PREFERENCE, <<"1","0","1">> >>, <<ATTR_PREFERENCE, <<"-","1">> >>,
           <<ATTR_PREFERENCE, <<"x">> >>, <<ATTR_PREFERENCE, <<"1","2","a","b">> >>,
           <<ATTR_PROTOCOL, <<"h","t","t","p">>, ATTR_PREFERENCE, <<"5","0">> >> }
    ELSE { <<>> }

\* The character data the tokenizer delivers: white space, a number, a text
\* of MIN_URL_LENGTH characters and one of MIN_URL_LENGTH + 1.
Texts ==
    { <<" ">>, <<"1","0","2","4">>, <<"h","t","t","p">>, <<"h","t","t","p","s">> }

\* The first error a handler latched.
FirstLatched(old, new) == IF old = 0 THEN new ELSE old

\* The element on top of the open elements, NULL outside the root element.
OpenElement == IF openElems = <<>> THEN NULL ELSE openElems[Len(openElems)]

\* What the start tag of a file element says about the file name.
FileKind(attrs) ==
    IF attrs = <<>> THEN "noname"
    ELSE IF attrs[2] = filename THEN "ok"
    ELSE "wrong"

\* A start tag: the root element, or a child of the open element.  The
\* document is well formed up to the point where the tokenizer stops, so
\* nothing starts after the root element has been closed.  elemPhase says
\* what has happened since the latest start tag: nothing ("started"),
\* character data only ("data"), or an end tag ("closed").
OnStart(name, attrs) ==
    /\ pc = "parsing"
    /\ nEvents < MaxEvents
    /\ openElems # <<>> \/ nEvents = 0
    /\ elementInfo' = XmlParseStartElement(elementInfo, name, attrs)
    /\ nEvents' = nEvents + 1
    /\ openElems' = Append(openElems, name)
    /\ elemPhase' = "started"
    /\ fileSeen' = IF name = TAG_NAME_FILE THEN FileKind(attrs) ELSE fileSeen
    /\ lastVal' = NULL
    /\ UNCHANGED <<hashType, sorted, ml_ctx, xmlStatus, parseResult, firstError, pc,
                   hashList, hash_Type, dwError, digest, attempts, call,
                   threadVars>>

\* Character data arrives only inside an element.
OnCharacterData(val) ==
    /\ pc = "parsing"
    /\ nEvents < MaxEvents
    /\ openElems # <<>>
    /\ LET r == XmlParseData(elementInfo, ml_ctx, val, Len(val))
       IN  /\ elementInfo' = r.info
           /\ ml_ctx' = r.ctx
           /\ firstError' = FirstLatched(firstError, r.info.dwError)
    /\ nEvents' = nEvents + 1
    /\ elemPhase' = IF elemPhase = "started" THEN "data" ELSE elemPhase
    /\ lastVal' = val
    /\ UNCHANGED <<hashType, sorted, xmlStatus, parseResult, pc, hashList, hash_Type,
                   dwError, digest, attempts, openElems, fileSeen, call,
                   threadVars>>

\* An end tag: it closes the open element, whose name it carries.
OnEnd(name) ==
    /\ pc = "parsing"
    /\ nEvents < MaxEvents
    /\ openElems # <<>>
    /\ name = OpenElement
    /\ elementInfo' = XmlParseEndElement(elementInfo, name)
    /\ nEvents' = nEvents + 1
    /\ openElems' = SubSeq(openElems, 1, Len(openElems) - 1)
    /\ elemPhase' = "closed"
    /\ lastVal' = NULL
    /\ UNCHANGED <<hashType, sorted, ml_ctx, xmlStatus, parseResult, firstError, pc,
                   hashList, hash_Type, dwError, digest, attempts, fileSeen, call,
                   threadVars>>

\* XML_Parse returns `status` and TDNFMetalinkParseFile returns.  The
\* tokenizer reports success only for a complete document.
ParseReturn(status) ==
    /\ pc = "parsing"
    /\ status = XML_STATUS_OK => (openElems = <<>> /\ nEvents > 0)
    /\ xmlStatus' = status
    /\ parseResult' = ParseFileResult(status, elementInfo)
    /\ pc' = "parsed"
    /\ UNCHANGED <<hashType, sorted, ml_ctx, elementInfo, nEvents, firstError,
                   hashList, hash_Type, dwError, digest, attempts,
                   openElems, elemPhase, fileSeen, lastVal, call,
                   threadVars>>

\* TDNFMetalinkParseFile on an empty model, before the first event.
Init ==
    /\ hashType = hashTypeInit
    /\ sorted = FALSE
    /\ ml_ctx = [filename |-> NULL, size |-> 0, hashes |-> <<>>, urls |-> <<>>]
    /\ elementInfo = [dwError |-> 0, filename |-> filename,
                      startElement |-> NULL, endElement |-> NULL,
                      attributes |-> <<>>]
    /\ nEvents = 0
    /\ xmlStatus = XML_STATUS_ERROR
    /\ parseResult = 0
    /\ firstError = 0
    /\ pc = "parsing"
    /\ hashList = 1
    /\ hash_Type = -1
    /\ dwError = 0
    /\ digest = [k \in 1..EVP_MAX_MD_SIZE |-> 0]
    /\ attempts = <<>>
    /\ openElems = <<>>
    /\ elemPhase = "closed"
    /\ fileSeen = "none"
    /\ lastVal = NULL
    /\ threads = [t \in {} |-> 0]
    /\ sortCalls = 0
    /\ overlap = FALSE
    /\ call = [fn |-> "none"]

Next ==
    \/ \E name \in ElementNames : \E attrs \in AttrsOf(name) : OnStart(name, attrs)
    \/ \E val \in Texts : OnCharacterData(val)
    \/ \E name \in ElementNames : OnEnd(name)
    \/ \E status \in {XML_STATUS_ERROR, XML_STATUS_OK} : ParseReturn(status)

Spec == Init /\ [][Next]_vars

-----------------------------------------------------------------------------
(* The registry lookup, the hex codec and the digest adapter called alone. *)

\* The longest hex text given to the codec.
MaxText == 4

\* A lower-case digit, a letter digit of each case, and a letter that is no
\* hex digit.
HexChars == {"0", "a", "F", "g"}

RECURSIVE TextsUpTo(_)
TextsUpTo(n) ==
    IF n = 0 THEN {<<>>}
    ELSE LET shorter == TextsUpTo(n - 1)
         IN  shorter \cup {Append(t, c) : t \in shorter, c \in HexChars}

HexTexts == TextsUpTo(MaxText)

\* The digest lengths given to TDNFCheckHexDigest: negative, zero, and every
\* length a text of HexTexts can have.
DigestLengths == (0 - 1)..(MaxText \div 2)

\* The names looked up: every spelling of the table, the empty string, a
\* spelling in another case and names the table lacks.
LookupNames ==
    {hashTypeInit[i].hash_name : i \in 1..Len(hashTypeInit)}
        \cup {<<>>, <<"S","H","A","2","5","6">>, <<"s","h","a","3","8","4">>,
              <<"s","h","a">>}

\* A byte that has not been written.
Unwritten == 0 - 1

\* TDNFGetResourceType(resource_type, &type), *type holding the sentinel.
GetResourceTypeCall(resource_type) ==
    /\ pc = "unit"
    /\ LET r == TDNFGetResourceType(resource_type, TDNF_HASH_SENTINEL,
                                    hashType, sorted)
       IN  /\ hashType' = r.table
           /\ sorted' = r.sorted
           /\ call' = [fn |-> "TDNFGetResourceType",
                       resource_type |-> resource_type,
                       first |-> ~sorted,
                       err |-> r.err, type |-> r.type]
    /\ UNCHANGED <<ml_ctx, pc, hashList, hash_Type, dwError, digest, attempts,
                   parserVars_unit>>

\* TDNFCheckHexDigest(hex_digest, digest_length) on the text and the length
\* drawn for this run.  The codec and the digest adapter keep no state
\* between calls, so a run calls one of them once.
CheckHexDigestCall ==
    /\ pc = "unit"
    /\ call.fn = "none"
    /\ call' = [fn |-> "TDNFCheckHexDigest",
                hex_digest |-> call.hex_digest,
                digest_length |-> call.digest_length,
                result |-> TDNFCheckHexDigest(call.hex_digest, call.digest_length)]
    /\ UNCHANGED <<hashType, sorted, ml_ctx, pc, hashList, hash_Type, dwError,
                   digest, attempts, parserVars_unit>>

\* TDNFChecksumFromHexDigest(hex_digest, ppdigest) on a buffer nothing has
\* been written to.  For a text of one character the decode buffer asked
\* for has zero bytes (utils.c:357), and TDNFAllocateMemory, which is not
\* part of utils.c, grants or refuses that; the call bails out when it
\* refuses.  A store past the end of the decode buffer is undefined
\* behaviour: the call returns all the same, or the allocator aborts the
\* process when the buffer is freed.
ChecksumFromHexDigestCall ==
    /\ pc = "unit"
    /\ call.fn = "none"
    /\ LET hex_digest == call.hex_digest
           ppdigest == [k \in 1..MaxText |-> Unwritten]
       IN  \E granted \in (IF Len(hex_digest) = 1 THEN BOOLEAN ELSE {TRUE}) :
              LET r == IF granted
                       THEN TDNFChecksumFromHexDigest(hex_digest, ppdigest)
                       ELSE [err |-> ERROR_TDNF_INVALID_PARAMETER,
                             digest |-> ppdigest]
                  b == IF granted THEN DecodeBuffer(hex_digest)
                       ELSE DecodeBuffer(<<>>)
              IN  \E outcome \in (IF b.stored > b.size
                                  THEN {"returned", "aborted"}
                                  ELSE {"returned"}) :
                     call' = [fn |-> "TDNFChecksumFromHexDigest",
                              hex_digest |-> hex_digest,
                              outcome |-> outcome,
                              err |-> r.err, digest |-> r.digest, buffer |-> b]
    /\ UNCHANGED <<hashType, sorted, ml_ctx, pc, hashList, hash_Type, dwError,
                   digest, attempts, parserVars_unit>>

\* TDNFGetDigestForFile(filename, hash, digest) under a fault, in FIPS mode
\* or not: what it returns, acquires and releases.
GetDigestForFileCall(fname, type, fault, fips) ==
    /\ pc = "unit"
    /\ call.fn = "none"
    /\ LET r == TDNFGetDigestForFile(fname, hash_ops[type + 1], fault, fips)
           l == DigestLocals(fname, fault)
       IN  call' = [fn |-> "TDNFGetDigestForFile",
                    filename |-> fname, type |-> type,
                    fault |-> fault, fips |-> fips, err |-> r.err,
                    opened |-> IF l.fd >= 0 THEN 1 ELSE 0,
                    created |-> IF l.ctx # NULL THEN 1 ELSE 0,
                    released |-> DigestCleanup(l.fd, l.ctx, r.err)]
    /\ UNCHANGED <<hashType, sorted, ml_ctx, pc, hashList, hash_Type, dwError,
                   digest, attempts, parserVars_unit>>

\* A process that has not used the registry, about to call the functions,
\* with the text and the digest length the codec is to be given.
InitUnit ==
    /\ hashType = hashTypeInit
    /\ sorted = FALSE
    /\ ml_ctx = [filename |-> NULL, size |-> 0, hashes |-> <<>>, urls |-> <<>>]
    /\ elementInfo = [dwError |-> 0, filename |-> filename,
                      startElement |-> NULL, endElement |-> NULL,
                      attributes |-> <<>>]
    /\ nEvents = 0
    /\ xmlStatus = XML_STATUS_ERROR
    /\ parseResult = 0
    /\ firstError = 0
    /\ pc = "unit"
    /\ hashList = 1
    /\ hash_Type = -1
    /\ dwError = 0
    /\ digest = [k \in 1..EVP_MAX_MD_SIZE |-> 0]
    /\ attempts = <<>>
    /\ openElems = <<>>
    /\ elemPhase = "closed"
    /\ fileSeen = "none"
    /\ lastVal = NULL
    /\ threads = [t \in {} |-> 0]
    /\ sortCalls = 0
    /\ overlap = FALSE
    /\ call \in [fn : {"none"}, hex_digest : HexTexts,
                 digest_length : DigestLengths]

NextUnit ==
    \/ \E name \in LookupNames : GetResourceTypeCall(name)
    \/ CheckHexDigestCall
    \/ ChecksumFromHexDigestCall
    \/ \E fname \in {<<>>, pszFile} :
       \E type \in TDNF_HASH_MD5..(TDNF_HASH_SENTINEL - 1) :
       \E fault \in Faults :
       \E fips \in (IF fault = "init" THEN BOOLEAN ELSE {FALSE}) :
          GetDigestForFileCall(fname, type, fault, fips)

SpecUnit == InitUnit /\ [][NextUnit]_vars

-----------------------------------------------------------------------------
(* TDNFGetResourceType called from two threads.  The table and the flag    *)
(* are static and nothing guards them, so the threads' reads and writes    *)
(* of them interleave.                                                     *)

Threads == {"t1", "t2"}

\* What the threads look up: a spelling that the sort moves down, one that
\* it moves up, and the empty string.
ThreadNames == {<<"s","h","a","1">>, <<"s","h","a","-","5","1","2">>, <<>>}

\* The places j where the table has table[j] after table[j+1] in strcmp order.
Inversions(table) ==
    {j \in 1..(Len(table) - 1) :
        hashTypeComparator(table[j], table[j + 1]) > 0}

\* Thread t is inside qsort.
InQsort(t) == threads[t].pc \in {"qsort", "swap1", "swap2"}

\* The parameter check and the test of the flag (utils.c:84-91).
Enter(t) ==
    /\ pc = "threads"
    /\ threads[t].pc = "call"
    /\ IF IsNullOrEmptyString(threads[t].resource_type)
       THEN /\ threads' = [threads EXCEPT ![t].pc = "returned",
                                          ![t].err = ERROR_TDNF_INVALID_PARAMETER]
            /\ UNCHANGED sortCalls
       ELSE IF ~sorted
       THEN /\ threads' = [threads EXCEPT ![t].pc = "qsort"]
            /\ sortCalls' = sortCalls + 1
       ELSE /\ threads' = [threads EXCEPT ![t].pc = "bsearch"]
            /\ UNCHANGED sortCalls
    /\ UNCHANGED <<hashType, sorted, overlap, ml_ctx, pc, hashList, hash_Type,
                   dwError, digest, attempts, handlerVars, call>>

\* qsort (utils.c:93) orders the table in place by exchanging entries that
\* the comparator finds out of order.  An exchange reads both entries ...
SortRead(t) ==
    /\ pc = "threads"
    /\ threads[t].pc = "qsort"
    /\ \E j \in Inversions(hashType) :
          threads' = [threads EXCEPT ![t].pc = "swap1", ![t].j = j,
                                     ![t].a = hashType[j],
                                     ![t].b = hashType[j + 1]]
    /\ UNCHANGED <<hashType, sorted, sortCalls, overlap, ml_ctx, pc, hashList,
                   hash_Type, dwError, digest, attempts, handlerVars, call>>

\* ... writes the second over the first ...
SortWrite1(t) ==
    /\ pc = "threads"
    /\ threads[t].pc = "swap1"
    /\ hashType' = [hashType EXCEPT ![threads[t].j] = threads[t].b]
    /\ threads' = [threads EXCEPT ![t].pc = "swap2"]
    /\ UNCHANGED <<sorted, sortCalls, overlap, ml_ctx, pc, hashList, hash_Type,
                   dwError, digest, attempts, handlerVars, call>>

\* ... and the first over the second.
SortWrite2(t) ==
    /\ pc = "threads"
    /\ threads[t].pc = "swap2"
    /\ hashType' = [hashType EXCEPT ![threads[t].j + 1] = threads[t].a]
    /\ threads' = [threads EXCEPT ![t].pc = "qsort"]
    /\ UNCHANGED <<sorted, sortCalls, overlap, ml_ctx, pc, hashList, hash_Type,
                   dwError, digest, attempts, handlerVars, call>>

\* qsort finds nothing out of order and returns.
SortReturn(t) ==
    /\ pc = "threads"
    /\ threads[t].pc = "qsort"
    /\ Inversions(hashType) = {}
    /\ threads' = [threads EXCEPT ![t].pc = "setflag"]
    /\ UNCHANGED <<hashType, sorted, sortCalls, overlap, ml_ctx, pc, hashList,
                   hash_Type, dwError, digest, attempts, handlerVars, call>>

\* sorted = 1 (utils.c:94)
SetSorted(t) ==
    /\ pc = "threads"
    /\ threads[t].pc = "setflag"
    /\ sorted' = TRUE
    /\ threads' = [threads EXCEPT ![t].pc = "bsearch"]
    /\ UNCHANGED <<hashType, sortCalls, overlap, ml_ctx, pc, hashList, hash_Type,
                   dwError, digest, attempts, handlerVars, call>>

\* bsearch on the table as it is, and the return (utils.c:97-115).
Search(t) ==
    /\ pc = "threads"
    /\ threads[t].pc = "bsearch"
    /\ LET currHash == bsearch(threads[t].resource_type, hashType)
       IN  threads' = [threads EXCEPT
                          ![t].pc = "returned",
                          ![t].type = IF currHash = 0 THEN -1
                                      ELSE hashType[currHash].hash_value]
    /\ overlap' = (overlap \/ \E u \in Threads \ {t} : InQsort(u))
    /\ UNCHANGED <<hashType, sorted, sortCalls, ml_ctx, pc, hashList, hash_Type,
                   dwError, digest, attempts, handlerVars, call>>

\* Two threads about to call TDNFGetResourceType in a process that has not
\* used the registry.
InitThreads ==
    /\ hashType = hashTypeInit
    /\ sorted = FALSE
    /\ ml_ctx = [filename |-> NULL, size |-> 0, hashes |-> <<>>, urls |-> <<>>]
    /\ elementInfo = [dwError |-> 0, filename |-> filename,
                      startElement |-> NULL, endElement |-> NULL,
                      attributes |-> <<>>]
    /\ nEvents = 0
    /\ xmlStatus = XML_STATUS_ERROR
    /\ parseResult = 0
    /\ firstError = 0
    /\ pc = "threads"
    /\ hashList = 1
    /\ hash_Type = -1
    /\ dwError = 0
    /\ digest = [k \in 1..EVP_MAX_MD_SIZE |-> 0]
    /\ attempts = <<>>
    /\ openElems = <<>>
    /\ elemPhase = "closed"
    /\ fileSeen = "none"
    /\ lastVal = NULL
    /\ call = [fn |-> "none"]
    /\ threads \in [Threads -> [pc : {"call"}, resource_type : ThreadNames,
                                j : {0}, a : {NULL}, b : {NULL},
                                err : {0}, type : {TDNF_HASH_SENTINEL}]]
    /\ sortCalls = 0
    /\ overlap = FALSE

NextThreads ==
    \E t \in Threads :
        \/ Enter(t)
        \/ SortRead(t)
        \/ SortWrite1(t)
        \/ SortWrite2(t)
        \/ SortReturn(t)
        \/ SetSorted(t)
        \/ Search(t)

SpecThreads == InitThreads /\ [][NextThreads]_vars

-----------------------------------------------------------------------------
(* What the claims speak of, stated apart from the code's own operators.   *)

\* The rank the registry gives a type name; -1 when it lists no such name.
RegistryRank(name) ==
    IF \E i \in 1..Len(hashTypeInit) : hashTypeInit[i].hash_name = name
    THEN hashTypeInit[CHOOSE i \in 1..Len(hashTypeInit) :
                          hashTypeInit[i].hash_name = name].hash_value
    ELSE -1

DeclRank(i) == RegistryRank(ml_ctx.hashes[i].type)

Decls == 1..Len(ml_ctx.hashes)

\* The maximum rank over the declarations whose type resolves; -1 if none.
BestRank ==
    IF \A i \in Decls : DeclRank(i) = -1 THEN -1
    ELSE CHOOSE r \in 0..(TDNF_HASH_SENTINEL - 1) :
            /\ \E i \in Decls : DeclRank(i) = r
            /\ \A i \in Decls : DeclRank(i) <= r

\* The value is the hex text of a digest of the rank's length.
HexValidFor(value, rank) ==
    /\ Len(value) = 2 * hash_ops[rank + 1].length
    /\ \A k \in 1..Len(value) : isxdigit(value[k])

\* The bytes a well-formed hex text stands for.
BytesOf(value) ==
    [k \in 1..(Len(value) \div 2) |->
        16 * XDigitValue(value[2 * k - 1]) + XDigitValue(value[2 * k])]

\* Declaration i is of the best rank, well-formed, and states the digest
\* the file has.
BestMatch(i) ==
    /\ BestRank >= 0
    /\ DeclRank(i) = BestRank
    /\ HexValidFor(ml_ctx.hashes[i].value, BestRank)
    /\ BytesOf(ml_ctx.hashes[i].value) = FileDigest(BestRank)

\* No call of the file system or of the digest engine has failed.
NoFault == \A k \in 1..Len(attempts) : attempts[k].fault = "none"

\* No declaration has the empty string for its type.
NoEmptyType == \A i \in Decls : ml_ctx.hashes[i].type # <<>>

-----------------------------------------------------------------------------
(* Claims about TDNFCheckRepoMDFileHashFromMetalink (under SpecVerify).    *)

\* C1: when some declaration is of a supported type, nothing fails in the
\* file system or the digest engine, and no declaration of the best rank is
\* both well-formed and equal to the file's digest, the call returns
\* "checksum validation failed".  Stated for the models without an empty
\* type attribute, whose lookup fails (C10).
C1_NoMatchFails ==
    (/\ pc = "done"
     /\ NoEmptyType
     /\ BestRank >= 0
     /\ NoFault
     /\ ~\E i \in Decls : BestMatch(i))
        => dwError = ERROR_TDNF_CHECKSUM_VALIDATION_FAILED

\* C2: when some declaration of the best rank is well-formed and states the
\* file's digest, and nothing fails in the file system or the digest engine,
\* the call returns success, whatever precedes that declaration.
C2_MatchSucceeds ==
    (/\ pc = "done"
     /\ NoFault
     /\ \E i \in Decls : BestMatch(i))
        => dwError = 0

\* C3: when the hash list is empty or no declaration resolves to a supported
\* rank, the call fails with "invalid repo file" and has computed no digest.
C3_NoUsableHash ==
    (pc = "done" /\ BestRank = -1)
        => (dwError = ERROR_TDNF_INVALID_REPO_FILE /\ attempts = <<>>)

\* C4: the selected rank is the maximum over the declarations whose type
\* resolves, a digest is computed only for declarations of that rank, and a
\* model whose best-rank declarations are all malformed or mismatching does
\* not verify (nothing failing in the file system or the digest engine).
C4_OnlyBestRankUsed ==
    /\ (pc = "check" \/ attempts # <<>>) => hash_Type = BestRank
    /\ \A k \in 1..Len(attempts) :
          /\ attempts[k].type = BestRank
          /\ DeclRank(attempts[k].decl) = BestRank
    /\ (/\ pc = "done"
        /\ NoEmptyType
        /\ BestRank >= 0
        /\ NoFault
        /\ ~\E i \in Decls : BestMatch(i))
          => dwError # 0

\* The selection and filter half of C4, which the code keeps.
C4_SelectionAndFilter ==
    /\ (pc = "check" \/ attempts # <<>>) => hash_Type = BestRank
    /\ \A k \in 1..Len(attempts) :
          /\ attempts[k].type = BestRank
          /\ DeclRank(attempts[k].decl) = BestRank

\* C5: an attempt that ends in a failure of the file system or of the digest
\* engine is the last attempt (no further candidate is tried), and that
\* failure's error is what the call returns.
C5_FaultAborts ==
    \A k \in 1..Len(attempts) :
        attempts[k].fault # "none"
            => /\ k = Len(attempts)
               /\ pc = "done" => dwError = attempts[k].err

\* C6: an attempt whose digest initialisation fails for md5 in FIPS mode
\* gets the FIPS error, which is then the call's result; no other attempt
\* gets the FIPS error, and the call returns it in no other case.
C6_FipsError ==
    /\ \A k \in 1..Len(attempts) :
          LET a == attempts[k]
              md5Fips == a.fault = "init" /\ a.fips /\ a.type = TDNF_HASH_MD5
          IN  /\ md5Fips => /\ a.err = ERROR_TDNF_FIPS_MODE_FORBIDDEN
                            /\ k = Len(attempts)
                            /\ pc = "done"
                            /\ dwError = ERROR_TDNF_FIPS_MODE_FORBIDDEN
              /\ a.err = ERROR_TDNF_FIPS_MODE_FORBIDDEN => md5Fips
    /\ dwError = ERROR_TDNF_FIPS_MODE_FORBIDDEN
          => /\ attempts # <<>>
             /\ attempts[Len(attempts)].err = ERROR_TDNF_FIPS_MODE_FORBIDDEN

\* C6's case: an md5 initialisation failed outside FIPS mode and the loop
\* went on; the next one failed in FIPS mode and the call returned the error.
C6_Witness ==
    /\ pc = "done"
    /\ dwError = ERROR_TDNF_FIPS_MODE_FORBIDDEN
    /\ Len(attempts) = 2
    /\ attempts[1].fault = "init" /\ ~attempts[1].fips
    /\ attempts[1].err = ERROR_TDNF_CHECKSUM_VALIDATION_FAILED
    /\ attempts[2].fault = "init" /\ attempts[2].fips
    /\ attempts[2].type = TDNF_HASH_MD5

\* C10: a type name the registry lacks (the empty string, another case, an
\* unknown name) is looked up without an error and as unsupported, and a
\* model holding such a declaration beside a matching one of a supported
\* type still verifies.
C10_UnsupportedIgnored ==
    /\ \A i \in Decls :
          RegistryRank(ml_ctx.hashes[i].type) = -1
             => LET r == TDNFGetResourceType(ml_ctx.hashes[i].type,
                                             TDNF_HASH_SENTINEL, hashType, sorted)
                IN  r.err = 0 /\ r.type = -1
    /\ (/\ pc = "done"
        /\ NoFault
        /\ \E i \in Decls : DeclRank(i) = -1
        /\ \E i \in Decls : BestMatch(i))
          => dwError = 0

-----------------------------------------------------------------------------
(* Claims about the parser (under Spec).                                   *)

\* C7: once a handler has latched an error, every later event leaves the
\* latched code as it is, so that the code TDNFMetalinkParseFile reads from
\* the parse context when the tokenizer returns is the first error latched.
C7_FirstErrorKept ==
    [][ /\ elementInfo.dwError # 0 => elementInfo'.dwError = elementInfo.dwError
        /\ pc' = "parsed" => elementInfo'.dwError = firstError' ]_vars

\* C8: no event changes the model once an error is latched, and the event
\* that latches an error appends no hash and no url declaration.
C8_NoMutationAfterFailure ==
    [][ /\ elementInfo.dwError # 0 => ml_ctx' = ml_ctx
        /\ (elementInfo.dwError = 0 /\ elementInfo'.dwError # 0)
              => /\ ml_ctx'.hashes = ml_ctx.hashes
                 /\ ml_ctx'.urls = ml_ctx.urls ]_vars

\* C8's case: a declaration was parsed, then a handler failed, then another
\* character-data event arrived (it changed the latched code).
C8_Witness ==
    /\ ml_ctx.hashes # <<>>
    /\ firstError # 0
    /\ elementInfo.dwError # firstError

\* C9: TDNFMetalinkParseFile returns an error when the tokenizer reports
\* one, the latched error when only a handler failed, and 0 exactly when
\* the tokenizer reports success and no error is latched.
C9_ParseFileResult ==
    pc = "parsed" =>
        /\ xmlStatus = XML_STATUS_ERROR => parseResult # 0
        /\ (xmlStatus = XML_STATUS_OK /\ elementInfo.dwError # 0)
              => parseResult = elementInfo.dwError
        /\ parseResult = 0
              <=> (xmlStatus = XML_STATUS_OK /\ elementInfo.dwError = 0)

-----------------------------------------------------------------------------
(* Claims about the element handlers (under Spec).                         *)

\* The value the start tag gives attribute `name`, NULL when it has none.
AttrOf(attrs, name) ==
    IF \E i \in 1..(Len(attrs) \div 2) : attrs[2 * i - 1] = name
    THEN attrs[2 * (CHOOSE i \in 1..(Len(attrs) \div 2) : attrs[2 * i - 1] = name)]
    ELSE NULL

\* The text is a decimal integer: an optional sign, then digits only.
IsInteger(s) ==
    LET d == IF Len(s) >= 1 /\ s[1] \in {"+", "-"} THEN Tail(s) ELSE s
    IN  /\ Len(d) >= 1
        /\ \A k \in 1..Len(d) : d[k] \in {"0","1","2","3","4","5","6","7","8","9"}

\* The number a decimal integer of at most three digits stands for.
IntegerValue(s) ==
    LET d == IF s[1] \in {"+", "-"} THEN Tail(s) ELSE s
        v == IF Len(d) = 1 THEN XDigitValue(d[1])
             ELSE IF Len(d) = 2 THEN 10 * XDigitValue(d[1]) + XDigitValue(d[2])
             ELSE 100 * XDigitValue(d[1]) + 10 * XDigitValue(d[2]) + XDigitValue(d[3])
    IN  IF s[1] = "-" THEN 0 - v ELSE v

\* The preference attribute is an integer of [0,100].
ValidPreference(p) == IsInteger(p) /\ IntegerValue(p) >= 0 /\ IntegerValue(p) <= 100

\* This step is a character-data event.
DataStep == nEvents' = nEvents + 1 /\ lastVal' # NULL

\* This step is a character-data event inside the element `tag`, which is
\* open and was the latest to start, with no error latched before it.
DataStepIn(tag) ==
    /\ DataStep
    /\ OpenElement = tag
    /\ elemPhase # "closed"
    /\ elementInfo.dwError = 0

\* C11: character data of a url element (longer than the threshold) whose
\* preference attribute is not an integer or is outside [0,100] latches an
\* error, preference 0 and 100 are accepted and recorded, and every url
\* declaration of the model has its preference in [0,100].
C11_PreferenceRange ==
    [][ /\ (/\ DataStepIn(TAG_NAME_URL)
            /\ Len(lastVal') > MIN_URL_LENGTH
            /\ AttrOf(elementInfo.attributes, ATTR_PREFERENCE) # NULL)
           => LET p == AttrOf(elementInfo.attributes, ATTR_PREFERENCE)
              IN  IF ValidPreference(p)
                  THEN /\ elementInfo'.dwError = 0
                       /\ ml_ctx'.urls[Len(ml_ctx'.urls)].preference
                             = IntegerValue(p)
                  ELSE elementInfo'.dwError # 0
        /\ \A k \in 1..Len(ml_ctx'.urls) :
              ml_ctx'.urls[k].preference \in 0..100 ]_vars

\* C12: character data of a url element of MIN_URL_LENGTH characters or
\* fewer changes nothing and latches no error; longer character data, on a
\* url element whose preference is absent or valid, appends one declaration
\* holding that text at the end of the urls and changes nothing else.
C12_UrlThreshold ==
    [][ DataStepIn(TAG_NAME_URL)
          => /\ Len(lastVal') <= MIN_URL_LENGTH
                  => (ml_ctx' = ml_ctx /\ elementInfo'.dwError = 0)
             /\ (/\ Len(lastVal') > MIN_URL_LENGTH
                 /\ LET p == AttrOf(elementInfo.attributes, ATTR_PREFERENCE)
                    IN  p = NULL \/ ValidPreference(p))
                  => /\ elementInfo'.dwError = 0
                     /\ Len(ml_ctx'.urls) = Len(ml_ctx.urls) + 1
                     /\ SubSeq(ml_ctx'.urls, 1, Len(ml_ctx.urls)) = ml_ctx.urls
                     /\ ml_ctx'.urls[Len(ml_ctx'.urls)].url = lastVal'
                     /\ ml_ctx'.hashes = ml_ctx.hashes
                     /\ ml_ctx'.size = ml_ctx.size
                     /\ ml_ctx'.filename = ml_ctx.filename ]_vars

\* C12's case: a url element got character data of MIN_URL_LENGTH + 1
\* characters, which was retained, then of MIN_URL_LENGTH, which was dropped.
C12_Witness ==
    /\ OpenElement = TAG_NAME_URL
    /\ elemPhase = "data"
    /\ lastVal # NULL /\ Len(lastVal) = MIN_URL_LENGTH
    /\ Len(ml_ctx.urls) = 1
    /\ Len(ml_ctx.urls[1].url) = MIN_URL_LENGTH + 1
    /\ elementInfo.dwError = 0

-----------------------------------------------------------------------------
(* Claims about the functions called alone (under SpecUnit).               *)

\* The rank each supported spelling stands for.
SpellingRank ==
    << <<<<"m","d","5">>, TDNF_HASH_MD5>>,
       <<<<"s","h","a","1">>, TDNF_HASH_SHA1>>,
       <<<<"s","h","a","-","1">>, TDNF_HASH_SHA1>>,
       <<<<"s","h","a","2","5","6">>, TDNF_HASH_SHA256>>,
       <<<<"s","h","a","-","2","5","6">>, TDNF_HASH_SHA256>>,
       <<<<"s","h","a","5","1","2">>, TDNF_HASH_SHA512>>,
       <<<<"s","h","a","-","5","1","2">>, TDNF_HASH_SHA512>> >>

\* C13: a lookup of a supported spelling returns no error and the rank of
\* its algorithm, md5 < sha1 < sha256 < sha512, on the first call (which
\* sorts the table) and on every later call alike; once sorted, the table
\* holds the same entries in strcmp order and stays so.
C13_LookupStable ==
    /\ TDNF_HASH_MD5 < TDNF_HASH_SHA1
    /\ TDNF_HASH_SHA1 < TDNF_HASH_SHA256
    /\ TDNF_HASH_SHA256 < TDNF_HASH_SHA512
    /\ call.fn = "TDNFGetResourceType"
          => \A i \in 1..Len(SpellingRank) :
                call.resource_type = SpellingRank[i][1]
                   => (call.err = 0 /\ call.type = SpellingRank[i][2])
    /\ sorted
          => /\ {hashType[i] : i \in 1..Len(hashType)}
                   = {hashTypeInit[i] : i \in 1..Len(hashTypeInit)}
             /\ Len(hashType) = Len(hashTypeInit)
             /\ \A i \in 1..(Len(hashType) - 1) :
                   strcmp(hashType[i].hash_name, hashType[i + 1].hash_name) < 0

\* C13's case: a lookup of "sha-256" after the table has been sorted by an
\* earlier lookup.
C13_Witness ==
    /\ call.fn = "TDNFGetResourceType"
    /\ ~call.first
    /\ call.resource_type = <<"s","h","a","-","2","5","6">>
    /\ call.type = TDNF_HASH_SHA256

\* Every character of the text is an ASCII hex digit.
AllHex(text) ==
    \A k \in 1..Len(text) :
        text[k] \in {"0","1","2","3","4","5","6","7","8","9",
                     "a","b","c","d","e","f","A","B","C","D","E","F"}

C15_DecoderStrict ==
    (/\ call.fn = "TDNFChecksumFromHexDigest"
     /\ Len(call.hex_digest) >= 2
     /\ (Len(call.hex_digest) % 2 = 1 \/ ~AllHex(call.hex_digest)))
        => /\ call.outcome = "returned"
           /\ call.err # 0
           /\ \A k \in 1..Len(call.digest) : call.digest[k] = Unwritten

-----------------------------------------------------------------------------
(* Claims about the elements of a document (under Spec).                   *)

\* C16: character data directly inside a file element without a name
\* attribute latches "missing file attribute", inside one with another name
\* than the expected "invalid file name"; and when the tokenizer has
\* delivered a complete document holding a file element and no handler has
\* latched an error, that element carried the expected name and the
\* model's filename is that name.
C16_FileNameChecked ==
    [][ /\ DataStepIn(TAG_NAME_FILE)
              => /\ fileSeen = "noname"
                    => elementInfo'.dwError
                          = ERROR_TDNF_METALINK_PARSER_MISSING_FILE_ATTR
                 /\ fileSeen = "wrong"
                    => elementInfo'.dwError
                          = ERROR_TDNF_METALINK_PARSER_INVALID_FILE_NAME
                 /\ fileSeen = "ok"
                    => (elementInfo'.dwError = 0 /\ ml_ctx'.filename = filename)
        /\ (/\ pc' = "parsed"
            /\ xmlStatus' = XML_STATUS_OK
            /\ fileSeen # "none"
            /\ firstError = 0)
              => (fileSeen = "ok" /\ ml_ctx.filename = filename) ]_vars

\* This step is the end tag of an element `tag` that has had neither
\* character data nor a child, with no error latched before it.
EmptyElementEnd(tag) ==
    /\ nEvents' = nEvents + 1
    /\ Len(openElems') = Len(openElems) - 1
    /\ OpenElement = tag
    /\ elemPhase = "started"
    /\ elementInfo.dwError = 0

\* C17: character data of a hash element without a type attribute latches
\* "missing hash attribute", a hash element that ends without any character
\* data has "missing hash content" latched, neither appends a declaration,
\* and every hash declaration of the model has a type and a value.
C17_HashRequiresTypeAndContent ==
    [][ /\ (DataStepIn(TAG_NAME_HASH)
            /\ AttrOf(elementInfo.attributes, ATTR_TYPE) = NULL)
              => /\ elementInfo'.dwError
                       = ERROR_TDNF_METALINK_PARSER_MISSING_HASH_ATTR
                 /\ ml_ctx'.hashes = ml_ctx.hashes
        /\ EmptyElementEnd(TAG_NAME_HASH)
              => /\ elementInfo'.dwError
                       = (IF AttrOf(elementInfo.attributes, ATTR_TYPE) = NULL
                          THEN ERROR_TDNF_METALINK_PARSER_MISSING_HASH_ATTR
                          ELSE ERROR_TDNF_METALINK_PARSER_MISSING_HASH_CONTENT)
                 /\ ml_ctx'.hashes = ml_ctx.hashes
        /\ \A k \in 1..Len(ml_ctx'.hashes) :
              /\ ml_ctx'.hashes[k].type # NULL
              /\ ml_ctx'.hashes[k].value # NULL ]_vars

\* C18: character data that arrives after an end tag and before the next
\* start tag, inside a parent that is no size, hash or url element, is not
\* taken for content of the element just closed: it appends no hash and no
\* url declaration, leaves the size alone, and latches no error unless the
\* parent is the file element, whose name is then checked.
C18_DataAfterEndIgnored ==
    [][ (/\ DataStep
         /\ elemPhase = "closed"
         /\ elementInfo.dwError = 0
         /\ OpenElement \notin {TAG_NAME_SIZE, TAG_NAME_HASH, TAG_NAME_URL})
           => /\ ml_ctx'.hashes = ml_ctx.hashes
              /\ ml_ctx'.urls = ml_ctx.urls
              /\ ml_ctx'.size = ml_ctx.size
              /\ OpenElement # TAG_NAME_FILE => elementInfo'.dwError = 0 ]_vars

-----------------------------------------------------------------------------
(* More claims about TDNFCheckRepoMDFileHashFromMetalink (under            *)
(* SpecVerify).                                                             *)

\* The declarations of the best rank with a well-formed value among the
\* first d declarations.
CandidatesUpTo(d) ==
    {i \in 1..d : /\ BestRank >= 0
                  /\ DeclRank(i) = BestRank
                  /\ HexValidFor(ml_ctx.hashes[i].value, BestRank)}

\* C19: an attempt whose digest matched the file is the last attempt and
\* ends the run, and the digests computed by then are those of the
\* well-formed declarations of the best rank up to and including the
\* matching one, one each.
C19_StopsAtFirstMatch ==
    \A k \in 1..Len(attempts) :
        attempts[k].err = 0
            => LET d == attempts[k].decl
               IN  /\ k = Len(attempts)
                   /\ pc = "done"
                   /\ BytesOf(ml_ctx.hashes[d].value) = FileDigest(BestRank)
                   /\ {attempts[j].decl : j \in 1..Len(attempts)}
                         = CandidatesUpTo(d)
                   /\ Len(attempts) = Cardinality(CandidatesUpTo(d))

\* C19's case: the first of two matching declarations was verified and the
\* run ended without a digest computed for the second.
C19_Witness ==
    /\ pc = "done"
    /\ dwError = 0
    /\ Len(ml_ctx.hashes) = 2
    /\ BestMatch(1) /\ BestMatch(2)
    /\ Len(attempts) = 1
    /\ attempts[1].decl = 1
    /\ attempts[1].err = 0

-----------------------------------------------------------------------------
(* More claims about the functions called alone (under SpecUnit).          *)

-----------------------------------------------------------------------------
(* Claims about concurrent lookups (under SpecThreads).                    *)

\* C21: with two threads in TDNFGetResourceType and the table not yet
\* sorted, qsort is called at most once, no thread runs bsearch while the
\* other is inside qsort, and a lookup that has returned gives a supported
\* name the rank a lookup in a single thread gives it.
C21_ConcurrentFirstUse ==
    /\ sortCalls <= 1
    /\ ~overlap
    /\ \A t \in Threads :
          (threads[t].pc = "returned" /\ threads[t].resource_type # <<>>)
              => /\ threads[t].err = 0
                 /\ threads[t].type = RegistryRank(threads[t].resource_type)

-----------------------------------------------------------------------------
(* More claims about the parser (under Spec).                              *)

\* C22: once the latched error is nonzero it is nonzero after every later
\* event, and no later start tag changes the recorded element name or the
\* recorded attributes.
C22_FailedAbsorbing ==
    [][ elementInfo.dwError # 0
          => /\ elementInfo'.dwError # 0
             /\ elementInfo'.startElement = elementInfo.startElement
             /\ elementInfo'.attributes = elementInfo.attributes ]_vars

\* C22's case: with an error latched, a start tag of another element has
\* just arrived and the recorded element is still the earlier one.
C22_Witness ==
    /\ elementInfo.dwError # 0
    /\ elemPhase = "started"
    /\ OpenElement # elementInfo.startElement
    /\ pc = "parsing"

=============================================================================
